---- MODULE Spec2Model ----
(***************************************************************************)
(* A model of the rusthacl facade (src/src/lib.rs): five functions that    *)
(* check the lengths of caller-owned byte buffers, marshal them to the      *)
(* HACL* primitive engine through raw pointers and u32 lengths, and map     *)
(* the engine's status to a Result.                                         *)
(*                                                                          *)
(* A length is a usize.  On a 64-bit target a usize is two 32-bit words,    *)
(* and it is modelled as such: a buffer is                                  *)
(*     [bytes |-> <<b1, ..., bn>>, hi |-> h, fill |-> f]                    *)
(* whose length is h * 2^32 + n: its first n bytes are `bytes`, followed    *)
(* by h * 2^32 bytes that all equal `fill`.  The cast `len as u32` keeps    *)
(* the low word, which is n.                                                *)
(***************************************************************************)
EXTENDS Integers, Sequences, FiniteSets, TLC

VARIABLES
    pc,      \* "idle" | "called" | "decrypted": position of the calling harness
    op,      \* the facade function of the last call ("none" before any)
    args,    \* the buffers handed to the last call, as they were before it
    outs,    \* the caller's output buffers after the last call
    ret,     \* the Result the last call returned
    eng,     \* the engine invocations the last call made, in order
    fault,   \* the status the engine's encrypt verb reports on its next call
    sent,    \* the arguments and outputs of the encrypt call a decrypt follows
    flip,    \* the MAC bit changed between that encrypt and the decrypt
    gpc,     \* test_gec: the step the key-exchange workflow is at
    gin,     \* test_gec: the parties' keys
    gbuf,    \* test_gec: the workflow's output buffers z, ka_sa, kb_sb, kc_sc, sig
    glog,    \* test_gec: the facade calls made so far, each with its result
    tpc,     \* concurrent calls: each thread's position in its call
    tcall,   \* concurrent calls: each thread's function and buffers
    tout,    \* concurrent calls: each thread's output buffers
    tret,    \* concurrent calls: each thread's Result
    frame    \* concurrent calls: each call's locals (u32 lengths, pointers, status)

vars == <<pc, op, args, outs, ret, eng, fault, sent, flip,
          gpc, gin, gbuf, glog, tpc, tcall, tout, tret, frame>>

callVars == <<pc, op, args, outs, ret, eng, fault, sent, flip>>
gecVars  == <<gpc, gin, gbuf, glog>>
thrVars  == <<tpc, tcall, tout, tret, frame>>

(***************************************************************************)
(* Program constants.                                                       *)
(***************************************************************************)
MAC_LEN   == 16
NONCE_LEN == 12
KEY_LEN   == 32
SIGN_LEN  == 64
HASH_LEN  == 64
\* A byte (u8) takes the values 0 .. ByteMod - 1.
ByteMod   == 256
\* The bits of a byte.
ByteBits  == 8

(***************************************************************************)
(* Bounds of the model.                                                     *)
(***************************************************************************)
\* The longest low-word length of a variable-length buffer (message, aad).
MaxLo     == 2
\* The high word of the length of a long buffer: 1 is a length >= 2^32.
MaxHi     == 1
\* By how many bytes a fixed-size buffer is too short or too long.
Slack     == 1
\* The largest status the engine's encrypt verb reports.
MaxStatus == 2
\* The number of concurrent callers.
NThreads  == 2

(***************************************************************************)
(* Buffers and lengths.                                                     *)
(***************************************************************************)
Rep(n, b) == [i \in 1..n |-> b]

Buf(bytes, hi, fill) ==
    [bytes |-> bytes, hi |-> hi, fill |-> IF hi = 0 THEN 0 ELSE fill]

Small(bytes) == Buf(bytes, 0, 0)

EmptyBuf == Small(<<>>)

\* slice.len(): the usize as its two 32-bit words.
BufLen(b) == [hi |-> b.hi, lo |-> Len(b.bytes)]

\* A length compared after the cast to u32, not as a usize.
LenIsLow(b, n) == Len(b.bytes) = n

\* slice.len() != N, for a constant N < 2^32.
LenIs(b, n) == b.hi = 0 /\ Len(b.bytes) = n

\* slice.is_empty()
IsEmpty(b) == b.hi = 0 /\ Len(b.bytes) = 0

\* `x.len() as u32`: the cast keeps the low 32 bits.
AsU32(b) == Len(b.bytes)

\* ptr::null() and slice.as_ptr()
NullPtr == [null |-> TRUE, buf |-> EmptyBuf]
AsPtr(b) == [null |-> FALSE, buf |-> b]

RECURSIVE BSum(_)
BSum(s) == IF s = <<>> THEN 0 ELSE Head(s) + BSum(Tail(s))

\* The first n bytes behind a pointer, as the engine reads them.
ReadBytes(p, n) == IF p.null THEN <<>> ELSE SubSeq(p.buf.bytes, 1, n)

\* The buffer after the engine wrote `bytes` at its start.
WriteBytes(b, bytes) ==
    Buf(bytes \o SubSeq(b.bytes, Len(bytes) + 1, Len(b.bytes)), b.hi, b.fill)

Ok(v)  == [ok |-> TRUE, val |-> v, msg |-> ""]
Err(m) == [ok |-> FALSE, val |-> "", msg |-> m]

(***************************************************************************)
(* Test vectors (mod tests).                                                *)
(***************************************************************************)
KEY == <<112, 3, 170, 10, 142, 233, 168, 255, 213, 70, 30, 236, 124, 193, 193, 161,
         106, 67, 201, 212, 179, 43, 148, 126, 118, 249, 216, 232, 26, 49, 93, 168>>
CIPHERTEXT == <<209, 103>>
PLAINTEXT == <<4, 3>>
MAC == <<207, 119, 102, 121, 55, 81, 57, 135, 114, 176, 227, 195, 158, 140, 239, 47>>
NONCE == <<1, 0, 0, 0, 0, 0, 0, 0, 0, 0, 0, 0>>
Q_AE == <<152, 153, 34, 250, 110, 135, 43, 193, 69, 132, 128, 170, 248, 101, 165, 186,
          184, 97, 133, 119, 194, 236, 55, 249, 175, 179, 174, 71, 131, 44, 164, 68>>
P_AE == <<152, 153, 34, 250, 110, 135, 43, 193, 69, 132, 128, 170, 248, 101, 165, 186,
          184, 97, 133, 119, 194, 236, 55, 249, 175, 179, 174, 71, 131, 44, 164, 68>>
Q_BE == <<228, 213, 23, 19, 235, 248, 130, 204, 122, 144, 41, 20, 89, 204, 132, 126,
          162, 211, 233, 94, 158, 4, 38, 144, 131, 68, 233, 91, 10, 183, 20, 66>>
P_BE == <<19, 75, 99, 158, 104, 0, 156, 114, 141, 179, 100, 160, 205, 163, 243, 47,
          181, 77, 35, 8, 127, 51, 44, 121, 159, 205, 95, 125, 73, 168, 37, 181>>

(***************************************************************************)
(* The primitive engine (libhacl, linked through the extern "C" blocks).    *)
(* Its arithmetic is not part of the repository; what is modelled is the    *)
(* contract of its five verbs: each reads and writes exactly the number of  *)
(* bytes its length arguments and fixed sizes say, is a function of the     *)
(* bytes it reads, decrypt inverts encrypt, and decrypt reports status 0    *)
(* exactly when the tag it recomputes equals the tag it is given.           *)
(***************************************************************************)
KeyStream(k1, n1) ==
    (BSum(ReadBytes(k1, KEY_LEN)) + 3 * BSum(ReadBytes(n1, NONCE_LEN))) % ByteMod

Tag(ct, ad, k1, n1) ==
    LET t == (KeyStream(k1, n1) + 5 * BSum(ad) + 7 * Len(ad)
              + 11 * BSum(ct) + 13 * Len(ct)) % ByteMod
    IN  [i \in 1..MAC_LEN |-> IF 2 * i <= MAC_LEN THEN t ELSE ByteMod - 1 - t]

Chacha20Poly1305_aead_encrypt(c, mac, m, mlen, aad1, aadlen, k1, n1) ==
    LET ks == KeyStream(k1, n1)
        pt == ReadBytes(m, mlen)
        ct == [i \in 1..mlen |-> (pt[i] + ks) % ByteMod]
    IN  [c      |-> WriteBytes(c.buf, ct),
         mac    |-> WriteBytes(mac.buf, Tag(ct, ReadBytes(aad1, aadlen), k1, n1)),
         status |-> fault]

Chacha20Poly1305_aead_decrypt(m, c, mlen, mac, aad1, aadlen, k1, n1) ==
    LET ks == KeyStream(k1, n1)
        ct == ReadBytes(c, mlen)
        authentic == Tag(ct, ReadBytes(aad1, aadlen), k1, n1) = ReadBytes(mac, MAC_LEN)
    IN  [m      |-> IF authentic
                    THEN WriteBytes(m.buf, [i \in 1..mlen |-> (ct[i] + ByteMod - ks) % ByteMod])
                    ELSE m.buf,
         status |-> IF authentic THEN 0 ELSE 1]

Curve25519_crypto_scalarmult(mypublic, secret, basepoint) ==
    LET s == ReadBytes(secret, KEY_LEN)
        b == ReadBytes(basepoint, KEY_LEN)
    IN  WriteBytes(mypublic.buf, [i \in 1..KEY_LEN |-> (s[i] + 3 * b[i]) % ByteMod])

Ed25519_sign(signature, secret, msg, len) ==
    LET d == (BSum(ReadBytes(secret, KEY_LEN)) + 5 * BSum(ReadBytes(msg, len)) + 7 * len) % ByteMod
    IN  WriteBytes(signature.buf, [i \in 1..SIGN_LEN |-> (d + i) % ByteMod])

SHA2_512_hash(hash, input, input_len) ==
    LET d == (BSum(ReadBytes(input, input_len)) + 31 * input_len) % ByteMod
    IN  WriteBytes(hash.buf, [i \in 1..HASH_LEN |-> (d + i) % ByteMod])

(***************************************************************************)
(* The facade.  Each function is its checks (the early returns, in the      *)
(* code's order: the message of the first failing one, "" when all pass),   *)
(* its marshalling (the arguments of the engine call) and the whole         *)
(* function: [ret |-> the Result, out |-> the output buffers afterwards,    *)
(* eng |-> the engine invocations made].                                    *)
(***************************************************************************)
Invocation(call, status) == [call |-> call, status |-> status]

sha2_512_hash_checks(hash, input) ==
    IF ~LenIs(hash, HASH_LEN) THEN "Hash length error"
    ELSE IF IsEmpty(input) THEN "Can't use an empty input message"
    ELSE ""

sha2_512_hash_marshal(hash, input) ==
    [fn |-> "SHA2_512_hash", hash |-> AsPtr(hash), input |-> AsPtr(input),
     input_len |-> AsU32(input)]

sha2_512_hash(hash, input) ==
    LET e == sha2_512_hash_checks(hash, input)
        a == sha2_512_hash_marshal(hash, input)
    IN  IF e # ""
        THEN [ret |-> Err(e), out |-> [hash |-> hash], eng |-> <<>>]
        ELSE [ret |-> Ok("unit"),
              out |-> [hash |-> SHA2_512_hash(a.hash, a.input, a.input_len)],
              eng |-> <<Invocation(a, 0)>>]

ed25519_sign_checks(signature, secret_key, message) ==
    IF ~LenIs(secret_key, KEY_LEN) THEN "Public key length error"
    ELSE IF ~LenIs(signature, SIGN_LEN) THEN "Signature length error"
    ELSE IF IsEmpty(message) THEN "Can't use an empty message"
    ELSE ""

ed25519_sign_marshal(signature, secret_key, message) ==
    [fn |-> "Ed25519_sign", signature |-> AsPtr(signature), secret |-> AsPtr(secret_key),
     msg |-> AsPtr(message), len |-> AsU32(message)]

ed25519_sign(signature, secret_key, message) ==
    LET e == ed25519_sign_checks(signature, secret_key, message)
        a == ed25519_sign_marshal(signature, secret_key, message)
    IN  IF e # ""
        THEN [ret |-> Err(e), out |-> [signature |-> signature], eng |-> <<>>]
        ELSE [ret |-> Ok("unit"),
              out |-> [signature |-> Ed25519_sign(a.signature, a.secret, a.msg, a.len)],
              eng |-> <<Invocation(a, 0)>>]

curve25519_crypto_scalarmult_checks(public_key, secret_key, basepoint) ==
    IF ~LenIs(public_key, KEY_LEN) THEN "Public key length error"
    ELSE IF ~LenIs(secret_key, KEY_LEN) THEN "Secret key length error"
    ELSE IF ~LenIs(basepoint, KEY_LEN) THEN "Basepoint length error"
    ELSE ""

curve25519_crypto_scalarmult_marshal(public_key, secret_key, basepoint) ==
    [fn |-> "Curve25519_crypto_scalarmult", mypublic |-> AsPtr(public_key),
     secret |-> AsPtr(secret_key), basepoint |-> AsPtr(basepoint)]

curve25519_crypto_scalarmult(public_key, secret_key, basepoint) ==
    LET e == curve25519_crypto_scalarmult_checks(public_key, secret_key, basepoint)
        a == curve25519_crypto_scalarmult_marshal(public_key, secret_key, basepoint)
    IN  IF e # ""
        THEN [ret |-> Err(e), out |-> [public_key |-> public_key], eng |-> <<>>]
        ELSE [ret |-> Ok("unit"),
              out |-> [public_key |->
                          Curve25519_crypto_scalarmult(a.mypublic, a.secret, a.basepoint)],
              eng |-> <<Invocation(a, 0)>>]

chacha20poly1305_aead_decrypt_checks(message, mac, ciphertext, key, nonce) ==
    IF ~LenIs(mac, MAC_LEN) THEN "Mac length error"
    ELSE IF ~LenIs(key, KEY_LEN) THEN "Key length error"
    ELSE IF ~LenIs(nonce, NONCE_LEN) THEN "Nonce length error"
    ELSE IF IsEmpty(message) THEN "Can't use an empty message"
    ELSE IF BufLen(ciphertext) # BufLen(message)
         THEN "Message and ciphertext have different lengths"
    ELSE ""

\* let aadptr = if aad.is_empty() { ptr::null() } else { aad.as_ptr() };
chacha20poly1305_aead_decrypt_aadptr(aad) == IF IsEmpty(aad) THEN NullPtr ELSE AsPtr(aad)

\* The status dropped: every decryption reported as authentic.
chacha20poly1305_aead_decrypt_result_unchecked(val) == Ok("true")

\* match val { 0 => Ok(true), _ => Ok(false) }
chacha20poly1305_aead_decrypt_result(val) == IF val = 0 THEN Ok("true") ELSE Ok("false")

chacha20poly1305_aead_decrypt_marshal(message, mac, ciphertext, aad, key, nonce) ==
    [fn |-> "Chacha20Poly1305_aead_decrypt", m |-> AsPtr(message), c |-> AsPtr(ciphertext),
     mlen |-> AsU32(message), mac |-> AsPtr(mac), aad1 |-> chacha20poly1305_aead_decrypt_aadptr(aad),
     aadlen |-> AsU32(aad), k1 |-> AsPtr(key), n1 |-> AsPtr(nonce)]

chacha20poly1305_aead_decrypt(message, mac, ciphertext, aad, key, nonce) ==
    LET e == chacha20poly1305_aead_decrypt_checks(message, mac, ciphertext, key, nonce)
        a == chacha20poly1305_aead_decrypt_marshal(message, mac, ciphertext, aad, key, nonce)
        r == Chacha20Poly1305_aead_decrypt(a.m, a.c, a.mlen, a.mac, a.aad1, a.aadlen,
                                           a.k1, a.n1)
    IN  IF e # ""
        THEN [ret |-> Err(e), out |-> [message |-> message], eng |-> <<>>]
        ELSE [ret |-> chacha20poly1305_aead_decrypt_result(r.status), out |-> [message |-> r.m],
              eng |-> <<Invocation(a, r.status)>>]

chacha20poly1305_aead_encrypt_checks(ciphertext, mac, message, key, nonce) ==
    IF ~LenIs(mac, MAC_LEN) THEN "Mac length error"
    ELSE IF ~LenIs(key, KEY_LEN) THEN "Key length error"
    ELSE IF ~LenIs(nonce, NONCE_LEN) THEN "Nonce length error"
    ELSE IF IsEmpty(message) THEN "Can't use an empty message"
    ELSE IF BufLen(ciphertext) # BufLen(message)
         THEN "Message and ciphertext have different lengths"
    ELSE ""

\* let aadptr = if aad.is_empty() { ptr::null() } else { aad.as_ptr() };
chacha20poly1305_aead_encrypt_aadptr(aad) == IF IsEmpty(aad) THEN NullPtr ELSE AsPtr(aad)

\* A non-zero status turned into an error instead of Ok(false).
chacha20poly1305_aead_encrypt_result_err(val) ==
    IF val = 0 THEN Ok("true") ELSE Err("Encryption failed")

\* match val { 0 => Ok(true), _ => Ok(false) }
chacha20poly1305_aead_encrypt_result(val) == IF val = 0 THEN Ok("true") ELSE Ok("false")

chacha20poly1305_aead_encrypt_marshal(ciphertext, mac, message, aad, key, nonce) ==
    [fn |-> "Chacha20Poly1305_aead_encrypt", c |-> AsPtr(ciphertext), mac |-> AsPtr(mac),
     m |-> AsPtr(message), mlen |-> AsU32(message),
     aad1 |-> chacha20poly1305_aead_encrypt_aadptr(aad),
     aadlen |-> AsU32(aad), k1 |-> AsPtr(key), n1 |-> AsPtr(nonce)]

chacha20poly1305_aead_encrypt(ciphertext, mac, message, aad, key, nonce) ==
    LET e == chacha20poly1305_aead_encrypt_checks(ciphertext, mac, message, key, nonce)
        a == chacha20poly1305_aead_encrypt_marshal(ciphertext, mac, message, aad, key, nonce)
        r == Chacha20Poly1305_aead_encrypt(a.c, a.mac, a.m, a.mlen, a.aad1, a.aadlen,
                                           a.k1, a.n1)
    IN  IF e # ""
        THEN [ret |-> Err(e), out |-> [ciphertext |-> ciphertext, mac |-> mac], eng |-> <<>>]
        ELSE [ret |-> chacha20poly1305_aead_encrypt_result(r.status),
              out |-> [ciphertext |-> r.c, mac |-> r.mac],
              eng |-> <<Invocation(a, r.status)>>]

(***************************************************************************)
(* The buffers a caller hands in.                                           *)
(***************************************************************************)
\* v cut or zero-padded to n bytes.
Resize(v, n) == [i \in 1..n |-> IF i <= Len(v) THEN v[i] ELSE 0]

\* A buffer meant to hold the n bytes v: of the right length, Slack bytes short,
\* Slack bytes long, or 2^32 * h bytes too long (its low word is then still n).
Variants(v, n) ==
    {Small(Resize(v, l)) : l \in {n - Slack, n, n + Slack}}
        \cup {Buf(Resize(v, n), h, 0) : h \in 1..MaxHi}

\* The variable-length buffers: the first lo bytes of v, then 2^32 * hi bytes f.
VarBufs(v, f) == {Buf(Resize(v, lo), hi, f) : lo \in 0..MaxLo, hi \in {0, MaxHi}}

Zeros(n) == Rep(n, 0)

Messages    == VarBufs(PLAINTEXT, 4)
Ciphertexts == VarBufs(CIPHERTEXT, 103)
Blanks      == VarBufs(<<>>, 0)
Aads        == VarBufs(<<10, 11>>, 12)

\* The MAC bit a caller changes: byte pos (1-based), bit `bit` of it.
NoFlip == [pos |-> 0, bit |-> 0]
Flips  == {[pos |-> p, bit |-> b] : p \in 1..MAC_LEN, b \in 0..(ByteBits - 1)}

FlipByte(x, b) == IF (x \div (2 ^ b)) % 2 = 1 THEN x - 2 ^ b ELSE x + 2 ^ b

FlipBit(buf, f) ==
    IF f = NoFlip THEN buf
    ELSE Buf([buf.bytes EXCEPT ![f.pos] = FlipByte(@, f.bit)], buf.hi, buf.fill)

Nothing == [nothing |-> TRUE]

(***************************************************************************)
(* A caller making a facade call, and the receiver of what it encrypted.    *)
(***************************************************************************)
Do(o, a, r) ==
    /\ pc' = "called"
    /\ op' = o
    /\ args' = a
    /\ outs' = r.out
    /\ ret' = r.ret
    /\ eng' = r.eng
    /\ UNCHANGED <<fault, sent, flip>>

CallSha ==
    /\ pc = "idle"
    /\ \E hash \in Variants(Zeros(HASH_LEN), HASH_LEN), input \in Messages :
          Do("sha2_512_hash", [hash |-> hash, input |-> input], sha2_512_hash(hash, input))

CallSign ==
    /\ pc = "idle"
    /\ \E signature \in Variants(Zeros(SIGN_LEN), SIGN_LEN),
          secret_key \in Variants(KEY, KEY_LEN), message \in Messages :
          Do("ed25519_sign",
             [signature |-> signature, secret_key |-> secret_key, message |-> message],
             ed25519_sign(signature, secret_key, message))

CallScalarmult ==
    /\ pc = "idle"
    /\ \E public_key \in Variants(Zeros(KEY_LEN), KEY_LEN),
          secret_key \in Variants(KEY, KEY_LEN),
          basepoint \in Variants(<<9>>, KEY_LEN) :
          Do("curve25519_crypto_scalarmult",
             [public_key |-> public_key, secret_key |-> secret_key, basepoint |-> basepoint],
             curve25519_crypto_scalarmult(public_key, secret_key, basepoint))

CallDecrypt ==
    /\ pc = "idle"
    /\ \E message \in Blanks, mac \in Variants(MAC, MAC_LEN), ciphertext \in Ciphertexts,
          aad \in Aads, key \in Variants(KEY, KEY_LEN), nonce \in Variants(NONCE, NONCE_LEN) :
          Do("chacha20poly1305_aead_decrypt",
             [message |-> message, mac |-> mac, ciphertext |-> ciphertext, aad |-> aad,
              key |-> key, nonce |-> nonce],
             chacha20poly1305_aead_decrypt(message, mac, ciphertext, aad, key, nonce))

CallEncrypt ==
    /\ pc = "idle"
    /\ \E ciphertext \in Blanks, mac \in Variants(Zeros(MAC_LEN), MAC_LEN),
          message \in Messages, aad \in Aads, key \in Variants(KEY, KEY_LEN),
          nonce \in Variants(NONCE, NONCE_LEN) :
          Do("chacha20poly1305_aead_encrypt",
             [ciphertext |-> ciphertext, mac |-> mac, message |-> message, aad |-> aad,
              key |-> key, nonce |-> nonce],
             chacha20poly1305_aead_encrypt(ciphertext, mac, message, aad, key, nonce))

\* The receiver of a successful encryption: decrypt the ciphertext and the MAC
\* (as sent, or with one bit of the MAC changed) under the same key, nonce and
\* associated data, into a zeroed message buffer of the plaintext's length.
DecryptSent ==
    /\ pc = "called"
    /\ op = "chacha20poly1305_aead_encrypt"
    /\ ret = Ok("true")
    /\ \E f \in Flips \cup {NoFlip} :
          LET message == Buf(Zeros(Len(args.message.bytes)), args.message.hi, 0)
              mac     == FlipBit(outs.mac, f)
              r == chacha20poly1305_aead_decrypt(message, mac, outs.ciphertext, args.aad,
                                                 args.key, args.nonce)
          IN  /\ pc' = "decrypted"
              /\ op' = "chacha20poly1305_aead_decrypt"
              /\ args' = [message |-> message, mac |-> mac, ciphertext |-> outs.ciphertext,
                          aad |-> args.aad, key |-> args.key, nonce |-> args.nonce]
              /\ outs' = r.out
              /\ ret' = r.ret
              /\ eng' = r.eng
              /\ sent' = [args |-> args, outs |-> outs]
              /\ flip' = f
              /\ UNCHANGED fault

CallInit ==
    /\ pc = "idle"
    /\ op = "none"
    /\ args = Nothing
    /\ outs = Nothing
    /\ ret = Nothing
    /\ eng = <<>>
    /\ sent = Nothing
    /\ flip = NoFlip

GecIdle ==
    /\ gpc = "off"
    /\ gin = Nothing
    /\ gbuf = Nothing
    /\ glog = <<>>

ThreadsIdle ==
    /\ tpc = Nothing
    /\ tcall = Nothing
    /\ tout = Nothing
    /\ tret = Nothing
    /\ frame = Nothing

Init ==
    /\ CallInit
    /\ fault \in 0..MaxStatus
    /\ GecIdle
    /\ ThreadsIdle

Next ==
    \/ (CallSha /\ UNCHANGED <<gecVars, thrVars>>)
    \/ (CallSign /\ UNCHANGED <<gecVars, thrVars>>)
    \/ (CallScalarmult /\ UNCHANGED <<gecVars, thrVars>>)
    \/ (CallDecrypt /\ UNCHANGED <<gecVars, thrVars>>)
    \/ (CallEncrypt /\ UNCHANGED <<gecVars, thrVars>>)
    \/ (DecryptSent /\ UNCHANGED <<gecVars, thrVars>>)

Spec == Init /\ [][Next]_vars

(***************************************************************************)
(* The key exchange of tests::test_gec, from B's side.  The parties' keys   *)
(* are the test's vectors or malformed variants of them; every facade call  *)
(* is wrapped in assert_eq!(.., Ok(())), which panics on any other result.  *)
(***************************************************************************)
\* The result of a call left unchecked.
assert_eq_ok_unchecked(r, next) == next

\* assert_eq!(call, Ok(())): go on to `next`, or panic.
assert_eq_ok(r, next) == IF r = Ok("unit") THEN next ELSE "panicked"

\* a.clone() followed by append(b.clone()), for a shorter than 2^32 bytes.
Concat(a, b) == Buf(a.bytes \o b.bytes, b.hi, b.fill)

GecStep(step, r, next) ==
    /\ glog' = Append(glog, [step |-> step, ret |-> r.ret, eng |-> r.eng])
    /\ gpc' = assert_eq_ok(r.ret, next)
    /\ UNCHANGED gin

\* 3. z = scalar_multiplication(Qbe, Pae)
GecScalarmult ==
    /\ gpc = "z"
    /\ LET r == curve25519_crypto_scalarmult(gbuf.z, gin.q_be, gin.p_be)
       IN  /\ gbuf' = [gbuf EXCEPT !.z = r.out.public_key]
           /\ GecStep("z", r, "kdf0")

\* 4. kdf(z, partyIdent): the hash of z with the byte partyIdent pushed.
GecKdf(step, ident, field, next) ==
    /\ gpc = step
    /\ LET input == Small(Append(gbuf.z.bytes, ident))
           r == sha2_512_hash(gbuf[field], input)
       IN  /\ gbuf' = [gbuf EXCEPT ![field] = r.out.hash]
           /\ GecStep(step, r, next)

GecKdf0 == GecKdf("kdf0", 0, "ka_sa", "kdf1")
GecKdf1 == GecKdf("kdf1", 1, "kb_sb", "kdf2")
GecKdf2 == GecKdf("kdf2", 2, "kc_sc", "sig")

\* 5. sig = signQb(Pbe || Pae)
GecSign ==
    /\ gpc = "sig"
    /\ LET r == ed25519_sign(gbuf.sig, gin.q_be, Concat(gin.p_be, gin.p_ae))
       IN  /\ gbuf' = [gbuf EXCEPT !.sig = r.out.signature]
           /\ GecStep("sig", r, "done")

\* The keys test_gec itself runs with.
GecKeys == [q_ae |-> Small(Q_AE), p_ae |-> Small(P_AE), q_be |-> Small(Q_BE),
            p_be |-> Small(P_BE)]

GecInit ==
    /\ gpc = "z"
    /\ \E q_be \in Variants(Q_BE, KEY_LEN), p_be \in Variants(P_BE, KEY_LEN),
          p_ae \in Variants(P_AE, KEY_LEN) :
          gin = [q_ae |-> Small(Q_AE), p_ae |-> p_ae, q_be |-> q_be, p_be |-> p_be]
    /\ gbuf = [z |-> Small(Zeros(KEY_LEN)), ka_sa |-> Small(Zeros(HASH_LEN)),
               kb_sb |-> Small(Zeros(HASH_LEN)), kc_sc |-> Small(Zeros(HASH_LEN)),
               sig |-> Small(Zeros(SIGN_LEN))]
    /\ glog = <<>>

InitGec ==
    /\ CallInit
    /\ fault = 0
    /\ GecInit
    /\ ThreadsIdle

NextGec ==
    \/ (GecScalarmult /\ UNCHANGED <<callVars, thrVars>>)
    \/ (GecKdf0 /\ UNCHANGED <<callVars, thrVars>>)
    \/ (GecKdf1 /\ UNCHANGED <<callVars, thrVars>>)
    \/ (GecKdf2 /\ UNCHANGED <<callVars, thrVars>>)
    \/ (GecSign /\ UNCHANGED <<callVars, thrVars>>)

SpecGec == InitGec /\ [][NextGec]_vars

(***************************************************************************)
(* Concurrent callers.  Each thread makes one facade call on buffers of     *)
(* its own; a call is four steps (the checks, the marshalling into the      *)
(* call's locals, the engine invocation, the mapping of the status), and    *)
(* the threads' steps interleave freely.                                    *)
(***************************************************************************)
Threads == 1..NThreads

Call(o, b) == [op |-> o, b |-> b]

Checks(c) ==
    CASE c.op = "sha2_512_hash" -> sha2_512_hash_checks(c.b.hash, c.b.input)
      [] c.op = "ed25519_sign" ->
            ed25519_sign_checks(c.b.signature, c.b.secret_key, c.b.message)
      [] c.op = "curve25519_crypto_scalarmult" ->
            curve25519_crypto_scalarmult_checks(c.b.public_key, c.b.secret_key, c.b.basepoint)
      [] c.op = "chacha20poly1305_aead_decrypt" ->
            chacha20poly1305_aead_decrypt_checks(c.b.message, c.b.mac, c.b.ciphertext,
                                                 c.b.key, c.b.nonce)
      [] c.op = "chacha20poly1305_aead_encrypt" ->
            chacha20poly1305_aead_encrypt_checks(c.b.ciphertext, c.b.mac, c.b.message,
                                                 c.b.key, c.b.nonce)

Marshal(c) ==
    CASE c.op = "sha2_512_hash" -> sha2_512_hash_marshal(c.b.hash, c.b.input)
      [] c.op = "ed25519_sign" ->
            ed25519_sign_marshal(c.b.signature, c.b.secret_key, c.b.message)
      [] c.op = "curve25519_crypto_scalarmult" ->
            curve25519_crypto_scalarmult_marshal(c.b.public_key, c.b.secret_key, c.b.basepoint)
      [] c.op = "chacha20poly1305_aead_decrypt" ->
            chacha20poly1305_aead_decrypt_marshal(c.b.message, c.b.mac, c.b.ciphertext,
                                                  c.b.aad, c.b.key, c.b.nonce)
      [] c.op = "chacha20poly1305_aead_encrypt" ->
            chacha20poly1305_aead_encrypt_marshal(c.b.ciphertext, c.b.mac, c.b.message,
                                                  c.b.aad, c.b.key, c.b.nonce)

\* The engine invocation inside the unsafe block: the output buffers it leaves
\* and the status it returns (0 for the verbs that return none).
Engine(a) ==
    CASE a.fn = "SHA2_512_hash" ->
            [out |-> [hash |-> SHA2_512_hash(a.hash, a.input, a.input_len)], status |-> 0]
      [] a.fn = "Ed25519_sign" ->
            [out |-> [signature |-> Ed25519_sign(a.signature, a.secret, a.msg, a.len)],
             status |-> 0]
      [] a.fn = "Curve25519_crypto_scalarmult" ->
            [out |-> [public_key |->
                         Curve25519_crypto_scalarmult(a.mypublic, a.secret, a.basepoint)],
             status |-> 0]
      [] a.fn = "Chacha20Poly1305_aead_decrypt" ->
            LET r == Chacha20Poly1305_aead_decrypt(a.m, a.c, a.mlen, a.mac, a.aad1, a.aadlen,
                                                   a.k1, a.n1)
            IN  [out |-> [message |-> r.m], status |-> r.status]
      [] a.fn = "Chacha20Poly1305_aead_encrypt" ->
            LET r == Chacha20Poly1305_aead_encrypt(a.c, a.mac, a.m, a.mlen, a.aad1, a.aadlen,
                                                   a.k1, a.n1)
            IN  [out |-> [ciphertext |-> r.c, mac |-> r.mac], status |-> r.status]

Result(o, val) ==
    CASE o = "chacha20poly1305_aead_decrypt" -> chacha20poly1305_aead_decrypt_result(val)
      [] o = "chacha20poly1305_aead_encrypt" -> chacha20poly1305_aead_encrypt_result(val)
      [] OTHER -> Ok("unit")

\* The whole function, run alone.
Alone(c) ==
    CASE c.op = "sha2_512_hash" -> sha2_512_hash(c.b.hash, c.b.input)
      [] c.op = "ed25519_sign" -> ed25519_sign(c.b.signature, c.b.secret_key, c.b.message)
      [] c.op = "curve25519_crypto_scalarmult" ->
            curve25519_crypto_scalarmult(c.b.public_key, c.b.secret_key, c.b.basepoint)
      [] c.op = "chacha20poly1305_aead_decrypt" ->
            chacha20poly1305_aead_decrypt(c.b.message, c.b.mac, c.b.ciphertext, c.b.aad,
                                          c.b.key, c.b.nonce)
      [] c.op = "chacha20poly1305_aead_encrypt" ->
            chacha20poly1305_aead_encrypt(c.b.ciphertext, c.b.mac, c.b.message, c.b.aad,
                                          c.b.key, c.b.nonce)

\* The output buffers among a call's buffers.
OutBufs(c) ==
    CASE c.op = "sha2_512_hash" -> [hash |-> c.b.hash]
      [] c.op = "ed25519_sign" -> [signature |-> c.b.signature]
      [] c.op = "curve25519_crypto_scalarmult" -> [public_key |-> c.b.public_key]
      [] c.op = "chacha20poly1305_aead_decrypt" -> [message |-> c.b.message]
      [] c.op = "chacha20poly1305_aead_encrypt" ->
            [ciphertext |-> c.b.ciphertext, mac |-> c.b.mac]

\* The calls the threads make: the calls of the unit tests, with and without
\* associated data, and two that fail a check.
Sealed(aad) ==
    chacha20poly1305_aead_encrypt(Small(Zeros(Len(PLAINTEXT))), Small(Zeros(MAC_LEN)),
                                  Small(PLAINTEXT), aad, Small(KEY), Small(NONCE)).out

ThreadCalls ==
    {Call("sha2_512_hash", [hash |-> Small(Zeros(HASH_LEN)), input |-> i]) :
        i \in {Small(KEY), EmptyBuf}}
    \cup {Call("ed25519_sign",
               [signature |-> Small(Zeros(SIGN_LEN)), secret_key |-> Small(KEY),
                message |-> Small(Q_AE)])}
    \cup {Call("curve25519_crypto_scalarmult",
               [public_key |-> Small(Zeros(KEY_LEN)), secret_key |-> Small(KEY),
                basepoint |-> b]) : b \in {Small(Resize(<<9>>, KEY_LEN)), Small(<<9>>)}}
    \cup {Call("chacha20poly1305_aead_encrypt",
               [ciphertext |-> Small(Zeros(Len(PLAINTEXT))), mac |-> Small(Zeros(MAC_LEN)),
                message |-> Small(PLAINTEXT), aad |-> a, key |-> Small(KEY),
                nonce |-> Small(NONCE)]) : a \in {EmptyBuf, Small(<<10>>)}}
    \cup {Call("chacha20poly1305_aead_decrypt",
               [message |-> Small(Zeros(Len(PLAINTEXT))), mac |-> Sealed(a).mac,
                ciphertext |-> Sealed(a).ciphertext, aad |-> a, key |-> Small(KEY),
                nonce |-> Small(NONCE)]) : a \in {EmptyBuf, Small(<<10>>)}}

\* The locals kept in one static shared by all calls.
FrameOfStatic(t) == 1

\* Where a call's locals (mlen, aadlen, aadptr, val) live: in the frame of the
\* thread that makes the call.
FrameOf(t) == t

NoFrame == [call |-> Nothing, status |-> 0]

ThreadCheck(t) ==
    /\ tpc[t] = "entry"
    /\ LET e == Checks(tcall[t])
       IN  IF e # ""
           THEN /\ tret' = [tret EXCEPT ![t] = Err(e)]
                /\ tpc' = [tpc EXCEPT ![t] = "returned"]
           ELSE /\ tpc' = [tpc EXCEPT ![t] = "checked"]
                /\ UNCHANGED tret
    /\ UNCHANGED <<tcall, tout, frame>>

ThreadMarshal(t) ==
    /\ tpc[t] = "checked"
    /\ frame' = [frame EXCEPT ![FrameOf(t)] = [call |-> Marshal(tcall[t]), status |-> 0]]
    /\ tpc' = [tpc EXCEPT ![t] = "marshalled"]
    /\ UNCHANGED <<tcall, tout, tret>>

ThreadEngine(t) ==
    /\ tpc[t] = "marshalled"
    /\ LET r == Engine(frame[FrameOf(t)].call)
       IN  /\ tout' = [tout EXCEPT ![t] = r.out]
           /\ frame' = [frame EXCEPT ![FrameOf(t)].status = r.status]
    /\ tpc' = [tpc EXCEPT ![t] = "invoked"]
    /\ UNCHANGED <<tcall, tret>>

ThreadReturn(t) ==
    /\ tpc[t] = "invoked"
    /\ tret' = [tret EXCEPT ![t] = Result(tcall[t].op, frame[FrameOf(t)].status)]
    /\ tpc' = [tpc EXCEPT ![t] = "returned"]
    /\ UNCHANGED <<tcall, tout, frame>>

ThreadsInit ==
    /\ tpc = [t \in Threads |-> "entry"]
    /\ tcall \in [Threads -> ThreadCalls]
    /\ tout = [t \in Threads |-> OutBufs(tcall[t])]
    /\ tret = [t \in Threads |-> Nothing]
    /\ frame = [t \in Threads |-> NoFrame]

InitThreads ==
    /\ CallInit
    /\ fault = 0
    /\ GecIdle
    /\ ThreadsInit

NextThreads ==
    \/ \E t \in Threads : ThreadCheck(t) /\ UNCHANGED <<callVars, gecVars>>
    \/ \E t \in Threads : ThreadMarshal(t) /\ UNCHANGED <<callVars, gecVars>>
    \/ \E t \in Threads : ThreadEngine(t) /\ UNCHANGED <<callVars, gecVars>>
    \/ \E t \in Threads : ThreadReturn(t) /\ UNCHANGED <<callVars, gecVars>>

SpecThreads == InitThreads /\ [][NextThreads]_vars

(***************************************************************************)
(* The properties checked.                                                   *)
(***************************************************************************)
AeadOps == {"chacha20poly1305_aead_encrypt", "chacha20poly1305_aead_decrypt"}

\* Buffer b is exactly n bytes long; b holds no byte; b holds some byte.
Exactly(b, n) == BufLen(b) = [hi |-> 0, lo |-> n]
IsEmptyBuf(b) == Exactly(b, 0)
NonEmpty(b) == ~IsEmptyBuf(b)

\* The preconditions of the last call, as the specification states them.
WellFormed ==
    CASE op = "sha2_512_hash" ->
            Exactly(args.hash, HASH_LEN) /\ NonEmpty(args.input)
      [] op = "ed25519_sign" ->
            /\ Exactly(args.secret_key, KEY_LEN)
            /\ Exactly(args.signature, SIGN_LEN)
            /\ NonEmpty(args.message)
      [] op = "curve25519_crypto_scalarmult" ->
            /\ Exactly(args.public_key, KEY_LEN)
            /\ Exactly(args.secret_key, KEY_LEN)
            /\ Exactly(args.basepoint, KEY_LEN)
      [] op \in AeadOps ->
            /\ Exactly(args.key, KEY_LEN)
            /\ Exactly(args.nonce, NONCE_LEN)
            /\ Exactly(args.mac, MAC_LEN)
            /\ NonEmpty(args.message)
            /\ BufLen(args.ciphertext) = BufLen(args.message)
      [] OTHER -> TRUE

\* The caller's output buffers as they were before the last call.
OutputsBefore ==
    CASE op = "sha2_512_hash" -> [hash |-> args.hash]
      [] op = "ed25519_sign" -> [signature |-> args.signature]
      [] op = "curve25519_crypto_scalarmult" -> [public_key |-> args.public_key]
      [] op = "chacha20poly1305_aead_decrypt" -> [message |-> args.message]
      [] op = "chacha20poly1305_aead_encrypt" ->
            [ciphertext |-> args.ciphertext, mac |-> args.mac]
      [] OTHER -> Nothing

\* A u32 n handed to the engine is the length of buffer b.
ExactLen(n, b) == Exactly(b, n)

\* C1: a call that violates a precondition returns Err, makes no engine
\* invocation, and leaves every output buffer with the bytes it held.
C1_ValidationRejects ==
    (pc # "idle" /\ ~WellFormed) =>
        (~ret.ok /\ eng = <<>> /\ outs = OutputsBefore)

C1_Witness ==
    /\ pc = "called"
    /\ op = "chacha20poly1305_aead_encrypt"
    /\ args.key.hi > 0
    /\ Exactly(args.mac, MAC_LEN) /\ Exactly(args.nonce, NONCE_LEN)
    /\ NonEmpty(args.message) /\ BufLen(args.ciphertext) = BufLen(args.message)
    /\ ret = Err("Key length error")
    /\ outs = OutputsBefore

\* C2: decrypting what a valid encrypt call produced, under the same key,
\* nonce and associated data, returns Ok(true) and restores the plaintext.
C2_RoundTrip ==
    (pc = "decrypted" /\ flip = NoFlip) =>
        (ret = Ok("true") /\ outs.message = sent.args.message)

\* C3: decrypting what a valid encrypt call produced with one bit of the MAC
\* changed returns Ok(false).
C3_CorruptMacRejected ==
    (pc = "decrypted" /\ flip # NoFlip) => ret = Ok("false")

C3_Witness ==
    /\ pc = "decrypted"
    /\ flip \in Flips
    /\ args.mac # sent.outs.mac
    /\ args.aad # EmptyBuf
    /\ Len(eng) = 1
    /\ ret = Ok("false")

\* C4: an AEAD call that passes the checks invokes the engine once and returns
\* Ok(true) when the status is 0 and Ok(false) otherwise; one that fails a
\* check returns Err and does not invoke the engine.
C4_FailureKindsApart ==
    (pc # "idle" /\ op \in AeadOps) =>
        IF WellFormed
        THEN /\ Len(eng) = 1
             /\ ret = IF eng[1].status = 0 THEN Ok("true") ELSE Ok("false")
        ELSE ~ret.ok /\ eng = <<>>

C4_Witness ==
    /\ pc = "called"
    /\ op = "chacha20poly1305_aead_encrypt"
    /\ WellFormed
    /\ Len(eng) = 1
    /\ eng[1].status # 0
    /\ ret = Ok("false")

\* C5: the engine gets the null pointer with length 0 exactly when aad is
\* empty, and aad's pointer with aad's length otherwise.
C5_AadMarshalling ==
    (pc # "idle" /\ op \in AeadOps) =>
        \A i \in 1..Len(eng) :
            LET a == eng[i].call
            IN  /\ (a.aad1.null /\ a.aadlen = 0) <=> IsEmptyBuf(args.aad)
                /\ NonEmpty(args.aad) =>
                      (a.aad1 = AsPtr(args.aad) /\ ExactLen(a.aadlen, args.aad))
                /\ ~(~a.aad1.null /\ a.aadlen = 0)
                /\ ~(a.aad1.null /\ a.aadlen # 0)

\* The arguments of an operation that violate its preconditions.
Violated ==
    CASE op = "sha2_512_hash" ->
            {x \in {"hash"} : ~Exactly(args.hash, HASH_LEN)}
            \cup {x \in {"input"} : IsEmptyBuf(args.input)}
      [] op = "ed25519_sign" ->
            {x \in {"secret_key"} : ~Exactly(args.secret_key, KEY_LEN)}
            \cup {x \in {"signature"} : ~Exactly(args.signature, SIGN_LEN)}
            \cup {x \in {"message"} : IsEmptyBuf(args.message)}
      [] op = "curve25519_crypto_scalarmult" ->
            {x \in {"public_key"} : ~Exactly(args.public_key, KEY_LEN)}
            \cup {x \in {"secret_key"} : ~Exactly(args.secret_key, KEY_LEN)}
            \cup {x \in {"basepoint"} : ~Exactly(args.basepoint, KEY_LEN)}
      [] op \in AeadOps ->
            {x \in {"mac"} : ~Exactly(args.mac, MAC_LEN)}
            \cup {x \in {"key"} : ~Exactly(args.key, KEY_LEN)}
            \cup {x \in {"nonce"} : ~Exactly(args.nonce, NONCE_LEN)}
            \cup {x \in {"message"} : IsEmptyBuf(args.message)}
            \cup {x \in {"ciphertext"} : BufLen(args.ciphertext) # BufLen(args.message)}
      [] OTHER -> {}

\* The arguments an error value names.
Named(m) ==
    CASE m = "Hash length error" -> {"hash"}
      [] m = "Can't use an empty input message" -> {"input"}
      [] m = "Public key length error" -> {"public_key"}
      [] m = "Secret key length error" -> {"secret_key"}
      [] m = "Signature length error" -> {"signature"}
      [] m = "Basepoint length error" -> {"basepoint"}
      [] m = "Can't use an empty message" -> {"message"}
      [] m = "Mac length error" -> {"mac"}
      [] m = "Key length error" -> {"key"}
      [] m = "Nonce length error" -> {"nonce"}
      [] m = "Message and ciphertext have different lengths" -> {"message", "ciphertext"}
      [] OTHER -> {}

\* C6: when exactly one argument violates its precondition, the error value
\* names that argument.
C6_ErrorNamesField ==
    (pc # "idle" /\ Cardinality(Violated) = 1) =>
        (~ret.ok /\ Violated \subseteq Named(ret.msg))

\* C9: every length handed to the engine is the true length of its buffer.
C9_LengthsExact ==
    pc # "idle" =>
        \A i \in 1..Len(eng) :
            LET a == eng[i].call
            IN  CASE op = "sha2_512_hash" -> ExactLen(a.input_len, args.input)
                  [] op = "ed25519_sign" -> ExactLen(a.len, args.message)
                  [] op \in AeadOps ->
                        ExactLen(a.mlen, args.message) /\ ExactLen(a.aadlen, args.aad)
                  [] OTHER -> TRUE

\* C7: in test_gec the shared secret z comes from the scalar multiplication of
\* B's secret Qbe with the peer's public value Pae.
C7_SharedSecretFromPeer ==
    \A i \in 1..Len(glog) :
        (gin = GecKeys /\ glog[i].step = "z" /\ glog[i].eng # <<>>) =>
            /\ glog[i].eng[1].call.secret = AsPtr(gin.q_be)
            /\ glog[i].eng[1].call.basepoint = AsPtr(gin.p_ae)

\* The order of the workflow's steps.
GecOrder == <<"z", "kdf0", "kdf1", "kdf2", "sig">>

\* C8: under every interleaving a call returns what it returns when run alone
\* and leaves its output buffers as it does when run alone; until its engine
\* invocation its output buffers hold what the caller put there.
C8_CallsIndependent ==
    \A t \in DOMAIN tpc :
        /\ tpc[t] = "returned" =>
              (tret[t] = Alone(tcall[t]).ret /\ tout[t] = Alone(tcall[t]).out)
        /\ tpc[t] \in {"entry", "checked", "marshalled"} => tout[t] = OutBufs(tcall[t])

C8_Witness ==
    /\ tpc # Nothing
    /\ \A t \in DOMAIN tpc : tpc[t] = "returned"
    /\ tcall[1].op = "chacha20poly1305_aead_encrypt"
    /\ tcall[2].op = "chacha20poly1305_aead_decrypt"
    /\ tret[1] = Ok("true")
    /\ tret[2] = Ok("true")
    /\ tout[2].message = Small(PLAINTEXT)

\* C10: the workflow's calls are made in the order z, kdf0, kdf1, kdf2, sig,
\* each at most once and each only after the one before returned Ok; a call
\* that returns Err is the last one made.
C10_SinglePass ==
    /\ Len(glog) <= Len(GecOrder)
    /\ \A i \in 1..Len(glog) :
          /\ glog[i].step = GecOrder[i]
          /\ i < Len(glog) => glog[i].ret = Ok("unit")
    /\ (glog # <<>> /\ ~glog[Len(glog)].ret.ok) => gpc = "panicked"
    /\ gpc = "done" => Len(glog) = Len(GecOrder)

C10_Witness ==
    /\ gpc = "done"
    /\ [i \in 1..Len(glog) |-> glog[i].step] = GecOrder
    /\ \A i \in 1..Len(glog) : glog[i].ret = Ok("unit") /\ Len(glog[i].eng) = 1
====
